---- MODULE Spec2Model ----
(***************************************************************************)
(* A model of bot.py: the chat bot's session store, the login flow against *)
(* the portal, and the stack-based directory navigation driven by callback *)
(* tokens.                                                                 *)
(*                                                                         *)
(* Strings that the code inspects character by character (callback data,   *)
(* the credentials message) are tuples of one-character strings.  Message  *)
(* texts the code only compares as a whole are short labels.               *)
(***************************************************************************)
EXTENDS Integers, Sequences, FiniteSets, TLC

VARIABLES
    pages,        \* the portal: account -> the profile page it serves
    fs,           \* the content store: the set of paths that exist
    sessions,     \* sessions (bot.py:25): user -> profile or NoSession
    user_states,  \* user_states (bot.py:20): user -> state or NoState
    user_data,    \* context.user_data per user: dir_stack and paths
    msgs,         \* per user, the chat messages that carry buttons
    jar,          \* the cookie jar of the module-level requests.Session
    last,         \* history: what the most recent handler did
    trip,         \* history: per user, consecutive enters and Backs
    fresh         \* history: per user, the message the token table was built for

vars == <<pages, fs, sessions, user_states, user_data, msgs, jar, last, trip, fresh>>

-----------------------------------------------------------------------------
(* Bounds *)

MaxMsgs == 2
MaxParts == 3
MaxRows == 2

-----------------------------------------------------------------------------
(* Users and absent values *)

Users == {"u1", "u2"}
NavUsers == {"u1"}

NoSession == [absent |-> TRUE]
NoState == "absent"
NoPath == <<>>
NoMsg == [text |-> "none", kb |-> <<>>]

-----------------------------------------------------------------------------
(* Callback data *)

STUDENT == <<"s","t","u","d","e","n","t">>
LOGOUT == <<"l","o","g","o","u","t">>
BACK_TO_MENU == <<"b","a","c","k","_","t","o","_","m","e","n","u">>
BACK_TO_YEARS == <<"b","a","c","k","_","t","o","_","y","e","a","r","s">>
BACK_TO_PARENT == <<"b","a","c","k","_","t","o","_","p","a","r","e","n","t">>
DOWNLOAD_BOOKS == <<"d","o","w","n","l","o","a","d","_","b","o","o","k","s">>
DOWNLOAD_SUMMARIES ==
    <<"d","o","w","n","l","o","a","d","_","s","u","m","m","a","r","i","e","s">>
STUDY_PLAYLISTS == <<"s","t","u","d","y","_","p","l","a","y","l","i","s","t","s">>
YEAR_1 == <<"y","e","a","r","_","1">>

StartsWith(s, prefix) ==
    /\ Len(s) >= Len(prefix)
    /\ SubSeq(s, 1, Len(prefix)) = prefix

Digit(n) == <<"0","1","2","3","4","5","6","7","8","9">>[n + 1]

\* f"d{idx}" / f"f{idx}"
Token(letter, idx) == <<letter, Digit(idx)>>

-----------------------------------------------------------------------------
(* The content store *)

BOOKS_YEAR == <<"study_materials", "year_1">>
SUMMARIES_YEAR == <<"study_summaries", "year_1">>

DirA == Append(BOOKS_YEAR, "A")
FileF == Append(BOOKS_YEAR, "f.pdf")
DirB == Append(DirA, "B")
FileG == Append(DirB, "g.pdf")

AllDirs == {BOOKS_YEAR, SUMMARIES_YEAR, DirA, DirB}
AllFiles == {FileF, FileG}
AllPaths == AllDirs \cup AllFiles

\* the order in which os.listdir returns the entries of a directory
Entries(dir) ==
    CASE dir = BOOKS_YEAR -> <<"A", "f.pdf">>
      [] dir = DirA -> <<"B">>
      [] dir = DirB -> <<"g.pdf">>
      [] OTHER -> <<>>

Join(dir, item) == Append(dir, item)
DirOf(p) == SubSeq(p, 1, Len(p) - 1)
Basename(p) == p[Len(p)]
IsPrefix(p, q) == Len(p) <= Len(q) /\ SubSeq(q, 1, Len(p)) = p

Exists(p) == p \in fs
IsDir(p) == p \in fs /\ p \in AllDirs
IsFile(p) == p \in fs /\ p \in AllFiles

ListDir(dir) ==
    LET present(item) == Join(dir, item) \in fs
    IN  SelectSeq(Entries(dir), present)

-----------------------------------------------------------------------------
(* Views: a message text and its rows of buttons.  A button carries its    *)
(* callback data; src is history: the path the button was generated from.  *)

Button(data) == [data |-> data, src |-> NoPath]
EntryButton(data, p) == [data |-> data, src |-> p]
View(text, kb) == [text |-> text, kb |-> kb]

\* the keyboard rows built from a listing, before the Back row
EntryRows(dir, items) ==
    [idx \in 1..Len(items) |->
        IF IsDir(Join(dir, items[idx]))
        THEN EntryButton(Token("d", idx), Join(dir, items[idx]))
        ELSE EntryButton(Token("f", idx), Join(dir, items[idx]))]

\* the listing position a token names
TokenIndex(tok) == CHOOSE idx \in 0..9 : Digit(idx) = tok[2]

\* PathsTable with the listing counted from 0 while the buttons count from 1
PathsTable_FromZero(dir, items) ==
    LET ds == {Token("d", i - 1) : i \in {i \in 1..Len(items) : IsDir(Join(dir, items[i]))}}
        fl == {Token("f", i - 1) : i \in {i \in 1..Len(items) : IsFile(Join(dir, items[i]))}}
    IN  [tok \in ds \cup fl |-> Join(dir, items[TokenIndex(tok) + 1])]

\* context.user_data['paths'] as built from a listing: the d-entries of the
\* directories, updated with the f-entries of the files
PathsTable(dir, items) ==
    LET ds == {Token("d", idx) : idx \in {i \in 1..Len(items) : IsDir(Join(dir, items[i]))}}
        fl == {Token("f", idx) : idx \in {i \in 1..Len(items) : IsFile(Join(dir, items[i]))}}
    IN  [tok \in ds \cup fl |-> Join(dir, items[TokenIndex(tok)])]

\* context.user_data.get('paths', {}).get(query.data)
Resolve(u, data) ==
    IF data \in DOMAIN user_data[u].paths THEN user_data[u].paths[data] ELSE NoPath

-----------------------------------------------------------------------------
(* The views the handlers render *)

BackRow(data) == <<Button(data)>>

RoleMenu == View("role_menu", <<Button(STUDENT)>>)
MainMenu ==
    View("main_menu", <<Button(DOWNLOAD_BOOKS), Button(DOWNLOAD_SUMMARIES),
                        Button(STUDY_PLAYLISTS), Button(LOGOUT)>>)
Prompt == View("prompt", <<>>)
YearsMenu(text) == View(text, <<Button(YEAR_1), Button(BACK_TO_MENU)>>)
LoggedOut == View("logged_out", <<Button(STUDENT)>>)

\* show_main_menu(update, context, sessions.get(user_id))
MenuFor(u) == IF sessions[u] # NoSession THEN MainMenu ELSE RoleMenu

-----------------------------------------------------------------------------
(* Messages of a chat and the history variables *)

Slots == 1..MaxMsgs
FreeSlots(u) == {m \in Slots : msgs[u][m] = NoMsg}
HasFreeSlot(u) == FreeSlots(u) # {}
FirstFree(u) == CHOOSE m \in FreeSlots(u) : \A k \in FreeSlots(u) : m <= k

\* query.message.edit_text: a message left without buttons takes no further part
Edited(u, m, view) ==
    [msgs EXCEPT ![u][m] = IF view.kb = <<>> THEN NoMsg ELSE view]

\* update.message.reply_text: a new message
Replied(u, view) ==
    IF view.kb = <<>> THEN msgs ELSE [msgs EXCEPT ![u][FirstFree(u)] = view]

NoTrip == [slot |-> 0, n |-> 0, pushed |-> 0, b |-> 0, from |-> NoPath]

\* the token table was rebuilt for the listing shown in message m
Rebuilt(u, m) == [fresh EXCEPT ![u] = m]

\* message m was edited and the token table left as it was
Overwritten(u, m) == IF fresh[u] = m THEN [fresh EXCEPT ![u] = 0] ELSE fresh

NoPost == <<>>
NoIO == [token |-> FALSE, post |-> "-", get |-> "-", sink |-> FALSE]

\* the record of a handler run: result is the text rendered, or "document",
\* "raised" (an exception left the handler) or "none" (nothing was sent)
Did(u, op, slot, view, doc, raised) ==
    [user |-> u, op |-> op, slot |-> slot,
     result |-> IF raised THEN "raised" ELSE IF doc # NoPath THEN "document" ELSE view.text,
     doc |-> doc, why |-> "none", post |-> NoPost, cookie_by |-> "-", sink |-> "none",
     text |-> <<>>, io |-> NoIO]

\* a Back press on the message of u's trip, until the trip is over
BackOnTrip(u, m) ==
    IF trip[u].slot = m /\ trip[u].b <= trip[u].n
    THEN [trip EXCEPT ![u].b = @ + 1]
    ELSE [trip EXCEPT ![u] = NoTrip]

\* any operation of u other than entering a directory or Back ends u's trip
EndTrip(u) == [trip EXCEPT ![u] = NoTrip]

-----------------------------------------------------------------------------
(* button_handler: the elif chain that picks the branch for a callback *)

\* Branch with the one-letter prefixes tested before the fixed names
Branch_PrefixFirst(data) ==
    IF StartsWith(data, <<"d">>) THEN "directory"
    ELSE IF StartsWith(data, <<"f">>) THEN "file"
    ELSE IF data = STUDENT THEN "student"
    ELSE IF data = LOGOUT THEN "logout"
    ELSE IF data = BACK_TO_MENU THEN "back_to_menu"
    ELSE IF data = BACK_TO_YEARS THEN "back_to_years"
    ELSE IF data = STUDY_PLAYLISTS THEN "study_playlists"
    ELSE IF StartsWith(data, <<"y","e","a","r","_">>) THEN "year"
    ELSE IF data = BACK_TO_PARENT THEN "back_to_parent"
    ELSE "none"

Branch(data) ==
    IF data = STUDENT THEN "student"
    ELSE IF data = LOGOUT THEN "logout"
    ELSE IF data = BACK_TO_MENU THEN "back_to_menu"
    ELSE IF data = BACK_TO_YEARS THEN "back_to_years"
    ELSE IF data = DOWNLOAD_BOOKS THEN "download_books"
    ELSE IF data = DOWNLOAD_SUMMARIES THEN "download_summaries"
    ELSE IF data = STUDY_PLAYLISTS THEN "study_playlists"
    ELSE IF StartsWith(data, <<"y","e","a","r","_">>) THEN "year"
    ELSE IF StartsWith(data, <<"d">>) THEN "directory"
    ELSE IF data = BACK_TO_PARENT THEN "back_to_parent"
    ELSE IF StartsWith(data, <<"f">>) THEN "file"
    ELSE "none"

\* the button a callback query comes from
Query(u, m, i) == msgs[u][m].kb[i]

Pressable(u, m, i) == msgs[u][m] # NoMsg /\ i \in DOMAIN msgs[u][m].kb

-----------------------------------------------------------------------------
(* /start *)

Start(u, m) ==
    /\ HasFreeSlot(u)
    /\ m = FirstFree(u)
    /\ msgs' = Replied(u, MenuFor(u))
    /\ last' = Did(u, "start", FirstFree(u), MenuFor(u), NoPath, FALSE)
    /\ trip' = EndTrip(u)
    /\ UNCHANGED <<pages, fs, sessions, user_states, user_data, jar, fresh>>

-----------------------------------------------------------------------------
(* The fixed menu branches of button_handler *)

PressStudent(u, m, i) ==
    /\ Pressable(u, m, i)
    /\ Branch(Query(u, m, i).data) = "student"
    /\ IF sessions[u] # NoSession
       THEN /\ msgs' = Edited(u, m, MainMenu)
            /\ last' = Did(u, "student", m, MainMenu, NoPath, FALSE)
            /\ UNCHANGED user_states
       ELSE /\ msgs' = Edited(u, m, Prompt)
            /\ last' = Did(u, "student", m, Prompt, NoPath, FALSE)
            /\ user_states' = [user_states EXCEPT ![u] = "waiting_student_credentials"]
    /\ trip' = EndTrip(u)
    /\ fresh' = Overwritten(u, m)
    /\ UNCHANGED <<pages, fs, sessions, user_data, jar>>

\* Removed with every user's session deleted
Removed_All(u) == [v \in Users |-> NoSession]

\* Removed with the sessions of the other users deleted
Removed_Others(u) == [v \in Users |-> IF v = u THEN sessions[v] ELSE NoSession]

\* del sessions[user_id]
Removed(u) == [sessions EXCEPT ![u] = NoSession]

\* handle_logout
PressLogout(u, m, i) ==
    /\ Pressable(u, m, i)
    /\ Branch(Query(u, m, i).data) = "logout"
    /\ IF sessions[u] # NoSession
       THEN /\ sessions' = Removed(u)
            /\ user_states' = [user_states EXCEPT ![u] = NoState]
       ELSE UNCHANGED <<sessions, user_states>>
    /\ msgs' = Edited(u, m, LoggedOut)
    /\ last' = Did(u, "logout", m, LoggedOut, NoPath, FALSE)
    /\ trip' = EndTrip(u)
    /\ fresh' = Overwritten(u, m)
    /\ UNCHANGED <<pages, fs, user_data, jar>>

PressBackToMenu(u, m, i) ==
    /\ Pressable(u, m, i)
    /\ Branch(Query(u, m, i).data) = "back_to_menu"
    /\ msgs' = Edited(u, m, MenuFor(u))
    /\ last' = Did(u, "back_to_menu", m, MenuFor(u), NoPath, FALSE)
    /\ trip' = BackOnTrip(u, m)
    /\ fresh' = Overwritten(u, m)
    /\ UNCHANGED <<pages, fs, sessions, user_states, user_data, jar>>

\* handle_download_books, handle_download_summaries, handle_study_playlists
PressCategory(u, m, i) ==
    /\ Pressable(u, m, i)
    /\ Branch(Query(u, m, i).data) \in
          {"download_books", "download_summaries", "study_playlists"}
    /\ LET view == YearsMenu(
              CASE Branch(Query(u, m, i).data) = "download_books" -> "years_books"
                [] Branch(Query(u, m, i).data) = "download_summaries" -> "years_summaries"
                [] OTHER -> "years_playlists")
       IN  /\ msgs' = Edited(u, m, view)
           /\ last' = Did(u, Branch(Query(u, m, i).data), m, view, NoPath, FALSE)
    /\ trip' = EndTrip(u)
    /\ fresh' = Overwritten(u, m)
    /\ UNCHANGED <<pages, fs, sessions, user_states, user_data, jar>>

-----------------------------------------------------------------------------
(* Directory navigation *)

ListingView(text, dir, items, back) ==
    View(text, EntryRows(dir, items) \o BackRow(back))

\* the book/summary year directory a year press opens, from the message text
YearDir(text) == IF text = "years_books" THEN BOOKS_YEAR ELSE SUMMARIES_YEAR

\* what show_year_materials renders
YearView(year_dir) ==
    IF Exists(year_dir)
    THEN IF ListDir(year_dir) # <<>>
         THEN ListingView("choose_item", year_dir, ListDir(year_dir), BACK_TO_MENU)
         ELSE View("year_empty", BackRow(BACK_TO_MENU))
    ELSE View("year_unavailable", BackRow(BACK_TO_MENU))

\* show_year_materials, reached from the branch for year_<n>
PressYear(u, m, i) ==
    /\ Pressable(u, m, i)
    /\ Branch(Query(u, m, i).data) = "year"
    /\ msgs[u][m].text \in {"years_books", "years_summaries"}
    /\ LET year_dir == YearDir(msgs[u][m].text)
           listed == Exists(year_dir) /\ ListDir(year_dir) # <<>>
       IN  /\ user_data' = [user_data EXCEPT
                  ![u].dir_stack = <<year_dir>>,
                  ![u].paths = IF listed THEN PathsTable(year_dir, ListDir(year_dir)) ELSE @]
           /\ msgs' = Edited(u, m, YearView(year_dir))
           /\ last' = Did(u, "year", m, YearView(year_dir), NoPath, FALSE)
           /\ trip' = [trip EXCEPT ![u] = [NoTrip EXCEPT !.slot = m]]
           /\ fresh' = IF listed THEN Rebuilt(u, m) ELSE Overwritten(u, m)
    /\ UNCHANGED <<pages, fs, sessions, user_states, jar>>

\* show_playlist_links: what playlist_links.json holds decides the text
PressPlaylistYear(u, m, i) ==
    /\ Pressable(u, m, i)
    /\ Branch(Query(u, m, i).data) = "year"
    /\ msgs[u][m].text \notin {"years_books", "years_summaries"}
    /\ \E text \in {"playlist_links", "playlist_unavailable", "playlist_error"} :
          LET view == View(text, BackRow(STUDY_PLAYLISTS))
          IN  /\ msgs' = Edited(u, m, view)
              /\ last' = Did(u, "year", m, view, NoPath, FALSE)
    /\ trip' = EndTrip(u)
    /\ fresh' = Overwritten(u, m)
    /\ UNCHANGED <<pages, fs, sessions, user_states, user_data, jar>>

\* whether the directory branch lists the resolved path
Listed(path) == path # NoPath /\ Exists(path) /\ ListDir(path) # <<>>

\* what the directory branch renders for the resolved path
DirView(path) ==
    IF path # NoPath /\ Exists(path)
    THEN IF ListDir(path) # <<>>
         THEN ListingView("choose_from", path, ListDir(path), BACK_TO_PARENT)
         ELSE View("dir_empty", BackRow(BACK_TO_PARENT))
    ELSE View("dir_unavailable", BackRow(BACK_TO_PARENT))

\* Pushed with the stack started over at the directory
Pushed_Replaces(stack, path) == IF Listed(path) THEN <<path>> ELSE stack

\* Pushed without the append
Pushed_Never(stack, path) == stack

\* the dir_stack the directory branch leaves
Pushed(stack, path) == IF Listed(path) THEN Append(stack, path) ELSE stack

PressDir(u, m, i) ==
    /\ Pressable(u, m, i)
    /\ Branch(Query(u, m, i).data) = "directory"
    /\ LET path == Resolve(u, Query(u, m, i).data)
       IN  /\ user_data' = [user_data EXCEPT
                  ![u].dir_stack = Pushed(@, path),
                  ![u].paths = IF Listed(path) THEN PathsTable(path, ListDir(path)) ELSE @]
           /\ msgs' = Edited(u, m, DirView(path))
           /\ last' = Did(u, "directory", m, DirView(path), NoPath, FALSE)
           /\ trip' = IF trip[u].slot = m /\ trip[u].b = 0
                      THEN [trip EXCEPT ![u].n = @ + 1,
                                        ![u].pushed = IF Listed(path) THEN @ + 1 ELSE @,
                                        ![u].from = DirOf(Query(u, m, i).src)]
                      ELSE EndTrip(u)
           /\ fresh' = IF Listed(path) THEN Rebuilt(u, m) ELSE Overwritten(u, m)
    /\ UNCHANGED <<pages, fs, sessions, user_states, jar>>

\* dir_stack.pop()
Popped(stack) == SubSeq(stack, 1, Len(stack) - 1)
Top(stack) == stack[Len(stack)]

\* what the back_to_parent branch renders once it has popped to parent_dir
ParentView(stack) ==
    IF ListDir(Top(stack)) # <<>>
    THEN ListingView("choose_item", Top(stack), ListDir(Top(stack)),
                     IF Len(stack) = 1 THEN BACK_TO_MENU ELSE BACK_TO_PARENT)
    ELSE View("parent_empty", BackRow(BACK_TO_MENU))

PressBackToParent(u, m, i) ==
    /\ Pressable(u, m, i)
    /\ Branch(Query(u, m, i).data) = "back_to_parent"
    /\ LET stack == user_data[u].dir_stack
       IN  IF Len(stack) > 1
           THEN IF Exists(Top(Popped(stack)))
                THEN /\ user_data' = [user_data EXCEPT
                            ![u].dir_stack = Popped(stack),
                            ![u].paths =
                                IF ListDir(Top(Popped(stack))) # <<>>
                                THEN PathsTable(Top(Popped(stack)), ListDir(Top(Popped(stack))))
                                ELSE @]
                     /\ msgs' = Edited(u, m, ParentView(Popped(stack)))
                     /\ last' = Did(u, "back_to_parent", m, ParentView(Popped(stack)),
                                    NoPath, FALSE)
                     /\ fresh' = IF ListDir(Top(Popped(stack))) # <<>>
                                 THEN Rebuilt(u, m) ELSE Overwritten(u, m)
                \* os.listdir(parent_dir) raises: the stack is popped, nothing is rendered
                ELSE /\ user_data' = [user_data EXCEPT ![u].dir_stack = Popped(stack)]
                     /\ last' = Did(u, "back_to_parent", m, NoMsg, NoPath, TRUE)
                     /\ UNCHANGED <<msgs, fresh>>
           \* no else branch in the code: the press is answered and nothing is rendered
           ELSE /\ last' = Did(u, "back_to_parent", m, NoMsg, NoPath, FALSE)
                /\ UNCHANGED <<user_data, msgs, fresh>>
    /\ trip' = BackOnTrip(u, m)
    /\ UNCHANGED <<pages, fs, sessions, user_states, jar>>

\* Deliverable without the existence test
Deliverable_SkipsExists(path) == path # NoPath

\* if path and os.path.exists(path)
Deliverable(path) == path # NoPath /\ Exists(path)

FileUnavailable == View("file_unavailable", BackRow(BACK_TO_MENU))
FileError == View("file_error", BackRow(BACK_TO_MENU))

\* the file branch: the document is sent, or opening/sending it fails
PressFile(u, m, i) ==
    /\ Pressable(u, m, i)
    /\ Branch(Query(u, m, i).data) = "file"
    /\ LET path == Resolve(u, Query(u, m, i).data)
       IN  IF Deliverable(path)
           THEN \/ /\ last' = Did(u, "file", m, NoMsg, path, FALSE)
                   /\ UNCHANGED <<msgs, fresh>>
                \/ /\ msgs' = Edited(u, m, FileError)
                   /\ last' = Did(u, "file", m, FileError, NoPath, FALSE)
                   /\ fresh' = Overwritten(u, m)
           ELSE /\ msgs' = Edited(u, m, FileUnavailable)
                /\ last' = Did(u, "file", m, FileUnavailable, NoPath, FALSE)
                /\ fresh' = Overwritten(u, m)
    /\ trip' = EndTrip(u)
    /\ UNCHANGED <<pages, fs, sessions, user_states, user_data, jar>>

-----------------------------------------------------------------------------
(* The content store changes under the bot: a path and what is below it go *)

Remove(p) ==
    /\ p \in fs
    /\ p # SUMMARIES_YEAR
    /\ fs' = {q \in fs : ~IsPrefix(p, q)}
    /\ trip' = [u \in Users |-> NoTrip]
    /\ UNCHANGED <<pages, sessions, user_states, user_data, msgs, jar, last, fresh>>

-----------------------------------------------------------------------------
(* The credentials message *)

Fields == {<<"a">>, <<"b">>}

RECURSIVE JoinParts(_)
JoinParts(parts) ==
    IF Len(parts) = 1 THEN parts[1]
    ELSE parts[1] \o <<":">> \o JoinParts(Tail(parts))

\* the free-text messages a user sends: up to MaxParts fields joined by colons
Texts ==
    {JoinParts(ps) : ps \in UNION {[1..n -> Fields] : n \in 1..MaxParts}} \ {<<>>}

\* str.split(sep): cut at every occurrence of the separator
RECURSIVE Split(_, _)
Split(s, sep) ==
    IF \A k \in 1..Len(s) : s[k] # sep
    THEN <<s>>
    ELSE LET k == CHOOSE j \in 1..Len(s) :
                      s[j] = sep /\ \A h \in 1..(j - 1) : s[h] # sep
         IN  <<SubSeq(s, 1, k - 1)>> \o Split(SubSeq(s, k + 1, Len(s)), sep)

\* the messages the one user of Spec sends: the credentials of an account, a
\* wrong password, and a message with no colon
NavTexts == {<<"a", ":", "b">>, <<"a", ":", "a">>, <<"a">>}

\* the messages the users of SpecPortal send: the credentials of the two
\* accounts, and a wrong password
PortalTexts == {<<"a", ":", "b">>, <<"b", ":", "a">>, <<"b", ":", "b">>}

\* email, password = update.message.text.split(':') unpacks exactly two parts
Unpacks(text) == Len(Split(text, ":")) = 2

-----------------------------------------------------------------------------
(* The portal *)

\* keywords the code looks for in a label, transliterated
KW_NAME == {"al-ism", "ism al-talib"}
KW_NATIONAL_ID == {"al-raqm al-qawmi"}
KW_MOBILE == {"al-mobile", "raqm al-hatif"}
KW_EMAIL == {"al-email", "al-barid al-elektroni"}
KW_GROUP == {"al-firqa", "al-mustawa", "al-barnamaj"}
KW_GROUP_TEXT == {"al-mustawa", "barnamaj"}

\* a label or text node is the set of keywords it contains; a page is its
\* table rows in document order and its text nodes
Row(label, value) == [label |-> label, value |-> value]
Page(rows, nodes) == [rows |-> rows, nodes |-> nodes]

Accounts ==
    {[email |-> <<"a">>, password |-> <<"b">>,
      page |-> Page(<<Row({"ism al-talib"}, "Ahmed Ali"), Row({"al-firqa"}, "3")>>, <<>>)],
     [email |-> <<"b">>, password |-> <<"a">>,
      page |-> Page(<<Row({"ism al-talib"}, "Mona"), Row({"al-firqa"}, "1")>>, <<>>)]}

\* a text node: the e-mail addresses and keywords its text contains, and the
\* stripped text of its parent element
Node(emails, kws, parent) == [emails |-> emails, kws |-> kws, parent |-> parent]

\* the profile pages the portal may serve: up to MaxRows table rows, whose
\* value cell may be empty, and at most one text node outside the table
Labels == {{"ism al-talib"}, {"al-firqa"}, {"al-raqm al-qawmi"}, {"al-kulliya"}}
Values == {"", "Ahmed Ali", "Mona"}
Rows == {Row(l, v) : l \in Labels, v \in Values}
NodeSeqs == {<<>>, <<Node({<<"a">>}, {}, "Ahmed Ali a")>>,
             <<Node({}, {"al-mustawa"}, "al-mustawa 3")>>}
Pages == {Page(rows, nodes) : rows \in UNION {[1..n -> Rows] : n \in 0..MaxRows},
                              nodes \in NodeSeqs}

\* the jar holds the portal's sign-in cookie: the account it signs in, and
\* (history) the user whose POST put it there
NoCookie == [account |-> <<"-">>, by |-> "-"]
Cookie(email, u) == [account |-> email, by |-> u]
LoginPage == Page(<<>>, <<>>)

AccountOf(email) == CHOOSE a \in Accounts : a.email = email
Emails == {a.email : a \in Accounts}

\* what GET /Student/Index shows for the cookies in the jar
PageFor(cookie) ==
    IF cookie = NoCookie THEN LoginPage ELSE pages[cookie.account]

Valid(email, password) ==
    \E a \in Accounts : a.email = email /\ a.password = password

\* the portal's answers to the credential POST: it signs in on valid
\* credentials; otherwise it shows the form again, with the invalid-login
\* marker or with another message (a validation or lockout page); it may
\* also fail
PostKinds(email, password) ==
    (IF Valid(email, password) THEN {"signed_in"} ELSE {"rejected", "other_page"})
    \cup {"server_error", "transport_error"}

PostResponse(kind) ==
    CASE kind = "signed_in" -> [status |-> 200, marker |-> FALSE]
      [] kind = "rejected" -> [status |-> 200, marker |-> TRUE]
      [] kind = "other_page" -> [status |-> 200, marker |-> FALSE]
      [] OTHER -> [status |-> 500, marker |-> FALSE]

GetKinds == {"page", "not_200", "transport_error"}

\* everything outside the bot that one login attempt meets
IOs == [token : BOOLEAN, post : {"signed_in", "rejected", "other_page",
                                  "server_error", "transport_error"},
        get : GetKinds, sink : BOOLEAN]

\* an attempt reads its inputs in order and stops at the first failure: the
\* inputs it never reads are held at a fixed value
Reads(text, io) ==
    LET rest(post, get, sink) == io.post = post /\ io.get = get /\ io.sink = sink
    IN  IF ~Unpacks(text) THEN io.token /\ rest("rejected", "page", TRUE)
        ELSE IF ~io.token THEN rest("rejected", "page", TRUE)
        ELSE IF io.post \in {"rejected", "server_error", "transport_error"}
        THEN io.get = "page" /\ io.sink
        ELSE io.get # "page" => io.sink

\* the attempts over a set of messages and a set of inputs
Attempts(texts, ios) == {a \in texts \X ios : Reads(a[1], a[2])}

\* the inputs of the user of Spec: the portal signs in or rejects, and
\* nothing else fails
NavIOs == {io \in IOs : io.token /\ io.post \in {"signed_in", "rejected"}
                          /\ io.get = "page" /\ io.sink}

\* the inputs of the users of SpecPortal: as NavIOs, and the portal may
\* answer with a page that lacks the marker
PortalIOs == {io \in IOs : io.token /\ io.post \in {"signed_in", "rejected", "other_page"}
                             /\ io.get = "page" /\ io.sink}

-----------------------------------------------------------------------------
(* Profile extraction *)

Unset == "<unset>"
NoInfo == [name |-> Unset, national_id |-> Unset, mobile |-> Unset,
           email |-> Unset, study_group |-> Unset]

\* the if/elif chain over one table row
ScanRow(info, row) ==
    IF row.label \cap KW_NAME # {} THEN [info EXCEPT !.name = row.value]
    ELSE IF row.label \cap KW_NATIONAL_ID # {} THEN [info EXCEPT !.national_id = row.value]
    ELSE IF row.label \cap KW_MOBILE # {} THEN [info EXCEPT !.mobile = row.value]
    ELSE IF row.label \cap KW_EMAIL # {} THEN [info EXCEPT !.email = row.value]
    ELSE IF row.label \cap KW_GROUP # {} THEN [info EXCEPT !.study_group = row.value]
    ELSE info

RECURSIVE ScanRows(_, _)
ScanRows(info, rows) ==
    IF rows = <<>> THEN info ELSE ScanRows(ScanRow(info, Head(rows)), Tail(rows))

\* not student_info.get(key)
Missing(value) == value = Unset \/ value = ""

\* student_info.get(key, default)
GetOr(value, default) == IF value = Unset THEN default ELSE value

\* the parent text of the first of the text nodes that satisfy a test, if any
FirstNode(hits) == IF hits = <<>> THEN Unset ELSE hits[1].parent

ExtractProfile(page, email) ==
    LET table == ScanRows(NoInfo, page.rows)
        hasEmail(node) == email = <<>> \/ email \in node.emails
        hasGroup(node) == node.kws \cap KW_GROUP_TEXT # {}
        byEmail == FirstNode(SelectSeq(page.nodes, hasEmail))
        byGroup == FirstNode(SelectSeq(page.nodes, hasGroup))
        name == IF Missing(table.name) /\ byEmail # Unset THEN byEmail ELSE table.name
        group == IF Missing(table.study_group) /\ byGroup # Unset
                 THEN byGroup ELSE table.study_group
    IN  [name |-> GetOr(name, "Student"),
         study_group |-> GetOr(group, "Not specified"),
         national_id |-> GetOr(table.national_id, ""),
         mobile |-> GetOr(table.mobile, "")]

\* sessions[user_id] = {...}
SessionOf(u, page, email) ==
    LET info == ExtractProfile(page, email)
    IN  [name |-> info.name, email |-> email, study_group |-> info.study_group,
         telegram_username |-> u, national_id |-> info.national_id,
         mobile |-> info.mobile]

-----------------------------------------------------------------------------
(* handle_message -> handle_student_credentials *)

\* GetLoginToken that never comes back empty-handed
GetLoginToken_Always(io) == TRUE

\* get_login_token: the token, or None when the GET fails or has no field
GetLoginToken(io) == io.token

\* LoginSucceeded without the marker test
LoginSucceeded_IgnoresMarker(resp) == resp.status = 200

\* response.status_code == 200 and "Invalid login attempt" not in response.text
LoginSucceeded(resp) == resp.status = 200 /\ ~resp.marker

\* the record of a login attempt
Tried(u, text, io, why, result, slot, post, by, sink) ==
    [user |-> u, op |-> "credentials", slot |-> slot, result |-> result,
     doc |-> NoPath, why |-> why, post |-> post, cookie_by |-> by, sink |-> sink,
     text |-> text, io |-> io]

\* an attempt that ends with a text reply and no change to the bot's state
Refused(u, text, io, why, result, post) ==
    /\ last' = Tried(u, text, io, why, result, 0, post, "-", "none")
    /\ UNCHANGED <<sessions, user_states, msgs>>

HandleCredentials(u, text, io) ==
    /\ user_states[u] = "waiting_student_credentials"
    /\ IF ~Unpacks(text)
       THEN Refused(u, text, io, "malformed", "error", NoPost) /\ UNCHANGED jar
       ELSE LET email == Split(text, ":")[1]
                password == Split(text, ":")[2]
                post == <<email, password>>
                cookie == IF io.post = "signed_in" THEN Cookie(email, u) ELSE jar
            IN  IF ~GetLoginToken(io)
                THEN Refused(u, text, io, "no_token", "init_failed", NoPost) /\ UNCHANGED jar
                ELSE /\ io.post \in PostKinds(email, password)
                     /\ IF io.post = "transport_error"
                        THEN Refused(u, text, io, "transport", "error", post) /\ UNCHANGED jar
                        ELSE IF ~LoginSucceeded(PostResponse(io.post))
                        THEN Refused(u, text, io, "invalid", "invalid_credentials", post)
                             /\ UNCHANGED jar
                        ELSE /\ jar' = cookie
                             /\ IF io.get = "transport_error"
                                THEN Refused(u, text, io, "transport", "error", post)
                                ELSE IF io.get = "not_200"
                                THEN Refused(u, text, io, "profile_not_200", "fetch_failed", post)
                                ELSE /\ sessions' = [sessions EXCEPT
                                            ![u] = SessionOf(u, PageFor(cookie), email)]
                                     /\ IF ~io.sink
                                        \* save_to_excel raises: caught, "An error occurred"
                                        THEN /\ last' = Tried(u, text, io, "sink_failed",
                                                              "error", 0, post,
                                                              cookie.by, "failed")
                                             /\ UNCHANGED <<user_states, msgs>>
                                        ELSE /\ HasFreeSlot(u)
                                             /\ msgs' = Replied(u, MainMenu)
                                             /\ user_states' =
                                                  [user_states EXCEPT ![u] = "student_menu"]
                                             /\ last' = Tried(u, text, io, "ok", "main_menu",
                                                              FirstFree(u), post,
                                                              cookie.by, "appended")
    /\ trip' = EndTrip(u)
    /\ UNCHANGED <<pages, fs, user_data, fresh>>

-----------------------------------------------------------------------------
(* Specifications *)

NavAttempts == Attempts(NavTexts, NavIOs)
PortalAttempts == Attempts(PortalTexts, PortalIOs)
LoginAttempts == Attempts(Texts, IOs)

\* the bot's own state after the module is loaded
Loaded ==
    /\ fs = AllPaths
    /\ sessions = [u \in Users |-> NoSession]
    /\ user_states = [u \in Users |-> NoState]
    /\ user_data = [u \in Users |-> [dir_stack |-> <<>>, paths |-> <<>>]]
    /\ msgs = [u \in Users |-> [m \in Slots |-> NoMsg]]
    /\ jar = NoCookie
    /\ last = Did("-", "none", 0, NoMsg, NoPath, FALSE)
    /\ trip = [u \in Users |-> NoTrip]
    /\ fresh = [u \in Users |-> 0]

\* the portal serves each account its page
Init ==
    /\ Loaded
    /\ pages = [e \in Emails |-> AccountOf(e).page]

ButtonIndexes == 1..4

\* one user, the whole bot, and a content store that changes under it
Next ==
    \/ \E u \in NavUsers, m \in Slots : Start(u, m)
    \/ \E u \in NavUsers, m \in Slots, i \in ButtonIndexes : PressStudent(u, m, i)
    \/ \E u \in NavUsers, m \in Slots, i \in ButtonIndexes : PressLogout(u, m, i)
    \/ \E u \in NavUsers, m \in Slots, i \in ButtonIndexes : PressBackToMenu(u, m, i)
    \/ \E u \in NavUsers, m \in Slots, i \in ButtonIndexes : PressCategory(u, m, i)
    \/ \E u \in NavUsers, m \in Slots, i \in ButtonIndexes : PressYear(u, m, i)
    \/ \E u \in NavUsers, m \in Slots, i \in ButtonIndexes : PressPlaylistYear(u, m, i)
    \/ \E u \in NavUsers, m \in Slots, i \in ButtonIndexes : PressDir(u, m, i)
    \/ \E u \in NavUsers, m \in Slots, i \in ButtonIndexes : PressBackToParent(u, m, i)
    \/ \E u \in NavUsers, m \in Slots, i \in ButtonIndexes : PressFile(u, m, i)
    \/ \E u \in NavUsers, a \in NavAttempts : HandleCredentials(u, a[1], a[2])
    \/ \E p \in AllPaths : Remove(p)

Spec == Init /\ [][Next]_vars

\* every user, the login and logout flow, over the one shared cookie jar
NextPortal ==
    \/ \E u \in Users, m \in Slots : Start(u, m)
    \/ \E u \in Users, m \in Slots, i \in ButtonIndexes : PressStudent(u, m, i)
    \/ \E u \in Users, m \in Slots, i \in ButtonIndexes : PressLogout(u, m, i)
    \/ \E u \in Users, a \in PortalAttempts : HandleCredentials(u, a[1], a[2])

SpecPortal == Init /\ [][NextPortal]_vars

\* one user, the login and logout flow, every message and every failure
NextLogin ==
    \/ \E u \in NavUsers, m \in Slots : Start(u, m)
    \/ \E u \in NavUsers, m \in Slots, i \in ButtonIndexes : PressStudent(u, m, i)
    \/ \E u \in NavUsers, m \in Slots, i \in ButtonIndexes : PressLogout(u, m, i)
    \/ \E u \in NavUsers, a \in LoginAttempts : HandleCredentials(u, a[1], a[2])

SpecLogin == Init /\ [][NextLogin]_vars

\* one user and one account, whose profile page is any page of Pages
InitExtract ==
    /\ Loaded
    /\ \E page \in Pages :
          pages = [e \in Emails |-> IF e = <<"a">> THEN page ELSE AccountOf(e).page]

ExtractAttempts == {a \in NavAttempts : a[1] = <<"a", ":", "b">> /\ a[2].post = "signed_in"}

NextExtract ==
    \/ \E u \in NavUsers, m \in Slots : Start(u, m)
    \/ \E u \in NavUsers, m \in Slots, i \in ButtonIndexes : PressStudent(u, m, i)
    \/ \E u \in NavUsers, m \in Slots, i \in ButtonIndexes : PressLogout(u, m, i)
    \/ \E u \in NavUsers, a \in ExtractAttempts : HandleCredentials(u, a[1], a[2])

SpecExtract == InitExtract /\ [][NextExtract]_vars

\* the chat of a user who has not sent /start yet
Quiet(u) == \A k \in Slots : msgs[u][k] = NoMsg

\* the newest message of the chat of u
Latest(u, m) == \A k \in Slots : k > m => msgs[u][k] = NoMsg

\* the messages each user of SpecPair sends while asked for credentials
Sends(u) == IF u \in NavUsers THEN NavTexts ELSE PortalTexts \ NavTexts

PairAttempts == NavAttempts \cup PortalAttempts

\* two users, the whole bot: each sends /start once and presses the buttons
\* of the newest message of the own chat
NextPair ==
    \/ \E u \in Users, m \in Slots : Quiet(u) /\ Start(u, m)
    \/ \E u \in Users, m \in Slots, i \in ButtonIndexes :
          Latest(u, m) /\ PressStudent(u, m, i)
    \/ \E u \in Users, m \in Slots, i \in ButtonIndexes :
          Latest(u, m) /\ PressLogout(u, m, i)
    \/ \E u \in Users, m \in Slots, i \in ButtonIndexes :
          Latest(u, m) /\ PressBackToMenu(u, m, i)
    \/ \E u \in Users, m \in Slots, i \in ButtonIndexes :
          Latest(u, m) /\ PressCategory(u, m, i)
    \/ \E u \in Users, m \in Slots, i \in ButtonIndexes :
          Latest(u, m) /\ PressYear(u, m, i)
    \/ \E u \in Users, m \in Slots, i \in ButtonIndexes :
          Latest(u, m) /\ PressPlaylistYear(u, m, i)
    \/ \E u \in Users, m \in Slots, i \in ButtonIndexes :
          Latest(u, m) /\ PressDir(u, m, i)
    \/ \E u \in Users, m \in Slots, i \in ButtonIndexes :
          Latest(u, m) /\ PressBackToParent(u, m, i)
    \/ \E u \in Users, m \in Slots, i \in ButtonIndexes :
          Latest(u, m) /\ PressFile(u, m, i)
    \/ \E u \in Users, a \in PairAttempts :
          a[1] \in Sends(u) /\ HandleCredentials(u, a[1], a[2])

SpecPair == Init /\ [][NextPair]_vars

-----------------------------------------------------------------------------
(* Claims *)

\* the rows of a view above its Back row are the listing of dir as it is now
ListsChildren(view, dir) ==
    /\ Len(view.kb) >= 2
    /\ SubSeq(view.kb, 1, Len(view.kb) - 1) = EntryRows(dir, ListDir(dir))

\* u's trip: every press since the year listing was on one message, entering
\* n directories, each of them listed and pushed, and then pressing Back
OnTrip(u) == trip[u].slot # 0 /\ trip[u].n >= 1 /\ trip[u].pushed = trip[u].n
TripView(u) == msgs[u][trip[u].slot]

\* C1 as stated: from a year listing, after entering N >= 1 nested
\* directories and pressing the rendered Back N times, the user is at
\* MainMenu.
C1_BackNTimesReachesMainMenu ==
    \A u \in Users :
        (OnTrip(u) /\ trip[u].b = trip[u].n) => TripView(u) = MainMenu

\* C1 amended: after pushing N >= 1 directories and pressing the rendered
\* Back N times the user is back at the year listing with dir_stack =
\* [year_dir], and one more Back shows the top-level menu; every render on
\* the way lists exactly the children of the directory on top of dir_stack.
C1_BackNTimesReachesYearListing ==
    \A u \in Users :
        OnTrip(u) =>
            LET t == trip[u]
                stack == user_data[u].dir_stack
            IN  /\ t.b <= t.n =>
                    /\ Len(stack) = t.n - t.b + 1
                    /\ ListsChildren(TripView(u), Top(stack))
                /\ t.b = t.n =>
                    /\ stack = <<BOOKS_YEAR>>
                    /\ TripView(u) = YearView(BOOKS_YEAR)
                /\ t.b = t.n + 1 => TripView(u) = MenuFor(u)

C1_Witness ==
    \E u \in Users :
        /\ OnTrip(u) /\ trip[u].n = 2 /\ trip[u].b = 2
        /\ user_data[u].dir_stack = <<BOOKS_YEAR>>

\* a press of a directory or file button
PressEntry(u, m, i) == PressDir(u, m, i) \/ PressFile(u, m, i)

\* C2 as stated: whenever a rendered directory or file button is selected it
\* resolves to exactly the path it was generated from, whatever was rendered
\* for that user in between.
C2_EveryButtonResolvesToItsPath ==
    [][\A u \in Users, m \in Slots, i \in ButtonIndexes :
          PressEntry(u, m, i) => Resolve(u, Query(u, m, i).data) = Query(u, m, i).src]_vars

\* C2 amended: a directory or file button of the listing the token table
\* was last built for (no other listing rendered for that user since)
\* resolves to exactly the path it was generated from: a directory that is
\* listed is that path, a file that is delivered is that path.
C2_FreshButtonResolvesToItsPath ==
    [][\A u \in Users, m \in Slots, i \in ButtonIndexes :
          (PressEntry(u, m, i) /\ fresh[u] = m) =>
              /\ Resolve(u, Query(u, m, i).data) = Query(u, m, i).src
              /\ last'.result = "choose_from" =>
                    Top(user_data'[u].dir_stack) = Query(u, m, i).src
              /\ last'.result = "document" => last'.doc = Query(u, m, i).src]_vars

\* a file of the freshly listed directory was delivered while another
\* message of the user still shows entry buttons
C2_Witness ==
    /\ last.op = "file" /\ last.result = "document"
    /\ fresh[last.user] = last.slot
    /\ \E m \in Slots \ {last.slot}, i \in ButtonIndexes :
          /\ Pressable(last.user, m, i)
          /\ Query(last.user, m, i).src # NoPath

BrowseOps == {"download_books", "download_summaries", "study_playlists", "year",
              "directory", "back_to_parent", "file"}

\* C3: a category, year or directory listing is rendered for a user, or a
\* file delivered, only while that user has a session.
C3_BrowsingNeedsSession ==
    (last.op \in BrowseOps /\ last.result \notin {"none", "raised"})
        => sessions[last.user] # NoSession

\* C4: after a user presses logout the user has no session, is not awaiting
\* credentials, and has neither dir_stack nor token table.
C4_LogoutCascades ==
    last.op = "logout" =>
        /\ sessions[last.user] = NoSession
        /\ user_states[last.user] # "waiting_student_credentials"
        /\ user_data[last.user].dir_stack = <<>>
        /\ DOMAIN user_data[last.user].paths = {}

\* C5: an attempt that obtained a token, whose POST was classified Success
\* and whose profile GET returned 200 stores the profile under the submitted
\* identifier, leaves AwaitingCredentials and renders MainMenu (four rows).
C5_SuccessfulLoginShowsMainMenu ==
    (last.op = "credentials" /\ last.why \in {"ok", "sink_failed"}) =>
        /\ sessions[last.user] # NoSession
        /\ sessions[last.user].email = last.post[1]
        /\ user_states[last.user] = "student_menu"
        /\ last.result = "main_menu"
        /\ msgs[last.user][last.slot] = MainMenu
        /\ Len(msgs[last.user][last.slot].kb) = 4

NoColon(text) == \A k \in 1..Len(text) : text[k] # ":"
OneColon(text) == Cardinality({k \in 1..Len(text) : text[k] = ":"}) = 1

\* the failures C6 lists, told from what the attempt was given
FailedAttempt(text, io) ==
    \/ NoColon(text)
    \/ /\ OneColon(text)
       /\ \/ ~io.token
          \/ io.post \in {"rejected", "server_error", "transport_error"}
          \/ io.get \in {"not_200", "transport_error"}

\* C6: a failed login attempt (malformed message, token unavailable, invalid
\* credentials, transport error, profile page not 200) leaves the user's
\* session as it was and the user awaiting credentials, and ends with a
\* reply, not an exception.
C6_FailedAttemptChangesNothing ==
    [][(last'.op = "credentials" /\ FailedAttempt(last'.text, last'.io)) =>
          /\ sessions'[last'.user] = sessions[last'.user]
          /\ user_states'[last'.user] = "waiting_student_credentials"
          /\ last'.result \in {"error", "init_failed", "invalid_credentials",
                               "fetch_failed"}]_vars

\* an attempt was rejected while the user had a session, and the session is
\* still there
C6_Witness ==
    /\ last.op = "credentials" /\ last.why = "invalid"
    /\ sessions[last.user] # NoSession
    /\ user_states[last.user] = "waiting_student_credentials"

FirstColon(text) ==
    CHOOSE k \in 1..Len(text) : text[k] = ":" /\ \A h \in 1..(k - 1) : text[h] # ":"

\* C7: a message with a colon is cut once, at its first colon, and the
\* attempt goes to the portal with the text before it and all the text
\* after it.
C7_SplitOnFirstColon ==
    (last.op = "credentials" /\ ~NoColon(last.text) /\ last.io.token) =>
        last.post = <<SubSeq(last.text, 1, FirstColon(last.text) - 1),
                      SubSeq(last.text, FirstColon(last.text) + 1, Len(last.text))>>

\* C8: the profile page of a user's attempt is fetched with no sign-in
\* cookie but the one that user's own POST put in the jar.
C8_ProfileFromOwnCookies ==
    (last.op = "credentials" /\ last.why \in {"ok", "sink_failed"})
        => last.cookie_by \in {last.user, "-"}

\* C9: a file press whose token does not resolve, or resolves to a path that
\* is gone, shows the file-unavailable message with a Back button and leaves
\* dir_stack and the token table as they were.
C9_MissingFileKeepsPosition ==
    [][\A u \in Users, m \in Slots, i \in ButtonIndexes :
          (PressFile(u, m, i) /\ Resolve(u, Query(u, m, i).data) \notin fs) =>
              /\ last'.result = "file_unavailable"
              /\ msgs'[u][m] = View("file_unavailable", <<Button(BACK_TO_MENU)>>)
              /\ user_data'[u] = user_data[u]]_vars

\* the file of a listed directory two levels down was gone when pressed
C9_Witness ==
    /\ last.op = "file" /\ last.result = "file_unavailable"
    /\ Len(user_data[last.user].dir_stack) >= 2
    /\ DOMAIN user_data[last.user].paths # {}

\* C10: Back on the view reached by selecting a directory entry of listing L
\* renders listing L again, whether the directory was listed, empty or gone.
C10_BackReturnsOneLevel ==
    \A u \in Users :
        (trip[u].slot # 0 /\ trip[u].n >= 1 /\ trip[u].b = 1) =>
            ListsChildren(TripView(u), trip[u].from)

\* C11: the stored profile has a non-empty name and a non-empty study_group,
\* whatever the profile page holds (no rows, rows with an empty value cell).
C11_StoredProfileHasNoEmptyField ==
    \A u \in Users :
        sessions[u] # NoSession =>
            /\ sessions[u].name # ""
            /\ sessions[u].study_group # ""

\* a press of either Back button
PressBack(u, m, i) == PressBackToMenu(u, m, i) \/ PressBackToParent(u, m, i)

\* C12: while dir_stack holds no more than its root entry, every Back press
\* of a signed-in user renders MainMenu, raises nothing and leaves the
\* session and dir_stack as they were.
C12_BackAtTopRendersMainMenu ==
    [][\A u \in Users, m \in Slots, i \in ButtonIndexes :
          (PressBack(u, m, i) /\ sessions[u] # NoSession
                              /\ Len(user_data[u].dir_stack) <= 1) =>
              /\ last'.result = "main_menu"
              /\ msgs'[u][m] = MainMenu
              /\ sessions' = sessions
              /\ user_data'[u].dir_stack = user_data[u].dir_stack]_vars

\* an attempt that reaches the store, told from what it was given
StoringAttempt(text, io) ==
    /\ OneColon(text)
    /\ io.token
    /\ io.post # "transport_error" /\ LoginSucceeded(PostResponse(io.post))
    /\ io.get = "page"

\* C13: a user's session is replaced only by that user's own login that
\* reaches the store, and removed only by that user's own logout; every
\* other action of any user leaves it as it is.
C13_SessionLivesUntilLogout ==
    [][\A u \in Users :
          (sessions[u] # NoSession /\ sessions'[u] # sessions[u]) =>
              /\ last'.user = u
              /\ \/ last'.op = "logout" /\ sessions'[u] = NoSession
                 \/ /\ last'.op = "credentials"
                    /\ StoringAttempt(last'.text, last'.io)
                    /\ sessions'[u] # NoSession]_vars

\* a user logged out while the other user's session stayed
C13_Witness ==
    /\ last.op = "logout"
    /\ sessions[last.user] = NoSession
    /\ \E v \in Users \ {last.user} : sessions[v] # NoSession

\* the renders of a year, a directory or a parent directory
NavResults == {"choose_item", "year_empty", "year_unavailable", "choose_from",
               "dir_empty", "dir_unavailable", "parent_empty"}

\* the tokens of the entry buttons a view shows
EntryTokens(view) ==
    {view.kb[i].data : i \in {k \in DOMAIN view.kb : view.kb[k].src # NoPath}}

\* C14: after a render produced by entering a year, entering a directory or
\* pressing Back, the user's token table holds exactly the tokens of the
\* entry buttons of that render, none at all after an empty or unavailable
\* render.
C14_TableRebuiltOnEveryRender ==
    (last.op \in {"year", "directory", "back_to_parent"} /\ last.result \in NavResults) =>
        DOMAIN user_data[last.user].paths = EntryTokens(msgs[last.user][last.slot])

\* C15: after a Back-to-menu press renders MainMenu the user has neither
\* dir_stack nor token table, so no directory or file token resolves.
C15_MenuDestroysNavigationContext ==
    (last.op = "back_to_menu" /\ last.result = "main_menu") =>
        /\ user_data[last.user].dir_stack = <<>>
        /\ DOMAIN user_data[last.user].paths = {}

\* C16: the credential POST is sent only in an attempt whose token GET
\* returned a token; an attempt without a token ends with the
\* could-not-initialize reply, no POST, no profile fetch, and the jar and the
\* session store as they were.
C16_NoPostWithoutToken ==
    [][last'.op = "credentials" =>
          /\ last'.post # NoPost => last'.io.token
          /\ ~last'.io.token =>
                /\ last'.post = NoPost
                /\ last'.result = "init_failed"
                /\ jar' = jar
                /\ sessions' = sessions]_vars

\* an attempt found no token after an earlier attempt had signed in
C16_Witness ==
    /\ last.op = "credentials" /\ ~last.io.token
    /\ last.result = "init_failed" /\ last.post = NoPost
    /\ jar # NoCookie

\* the value of the first row whose label matches the keywords, if any
FirstValue(rows, kws) ==
    LET matches(row) == row.label \cap kws # {}
        hits == SelectSeq(rows, matches)
    IN  IF hits = <<>> THEN Unset ELSE hits[1].value

\* C17: each field of the stored profile that the table gives takes the
\* value of the first row whose label matches the field's keywords.
C17_FirstMatchWins ==
    \A u \in Users :
        sessions[u] # NoSession =>
            LET rows == pages[sessions[u].email].rows
                first(kws) == FirstValue(rows, kws)
            IN  /\ first(KW_NAME) \notin {Unset, ""} => sessions[u].name = first(KW_NAME)
                /\ first(KW_GROUP) \notin {Unset, ""} =>
                      sessions[u].study_group = first(KW_GROUP)
                /\ first(KW_NATIONAL_ID) # Unset =>
                      sessions[u].national_id = first(KW_NATIONAL_ID)

\* C18: entering a year makes dir_stack the one-entry stack of that year's
\* directory; from then on no step empties dir_stack or changes its bottom
\* entry, and Back on a one-entry stack leaves it alone.
C18_StackKeepsItsYear ==
    [][\A u \in Users :
          LET stack == user_data[u].dir_stack
              entered == \E m \in Slots, i \in ButtonIndexes : PressYear(u, m, i)
          IN  /\ \A m \in Slots, i \in ButtonIndexes :
                    PressYear(u, m, i) =>
                        user_data'[u].dir_stack = <<YearDir(msgs[u][m].text)>>
              /\ (stack # <<>> /\ ~entered) =>
                    /\ user_data'[u].dir_stack # <<>>
                    /\ user_data'[u].dir_stack[1] = stack[1]
              /\ (Len(stack) = 1 /\ \E m \in Slots, i \in ButtonIndexes : PressBack(u, m, i)) =>
                    user_data'[u].dir_stack = stack
              /\ user_data'[u].dir_stack # <<>> =>
                    user_data'[u].dir_stack[1] \in {BOOKS_YEAR, SUMMARIES_YEAR}]_vars

\* Back was pressed on a one-entry stack, which still has its entry
C18_Witness ==
    /\ last.op = "back_to_parent" /\ last.result = "none"
    /\ Len(user_data[last.user].dir_stack) = 1

FixedData == {STUDENT, LOGOUT, BACK_TO_MENU, BACK_TO_YEARS, BACK_TO_PARENT,
              DOWNLOAD_BOOKS, DOWNLOAD_SUMMARIES, STUDY_PLAYLISTS}

\* C19: in every token table a d-token maps to a directory and an f-token
\* to a file, and no listing position has both; a directory press delivers
\* no file, a file press leaves dir_stack alone, and no fixed menu action
\* is handled as a directory or file token.
C19_TokensNamespacedByKind ==
    [][\A u \in Users :
          /\ \A tok \in DOMAIN user_data'[u].paths :
                /\ tok[1] = "d" => user_data'[u].paths[tok] \in AllDirs
                /\ tok[1] = "f" => user_data'[u].paths[tok] \in AllFiles
                /\ ~({<<"d", tok[2]>>, <<"f", tok[2]>>} \subseteq DOMAIN user_data'[u].paths)
          /\ \A m \in Slots, i \in ButtonIndexes :
                /\ PressDir(u, m, i) => last'.doc = NoPath /\ last'.result # "document"
                /\ PressFile(u, m, i) => user_data'[u].dir_stack = user_data[u].dir_stack
                /\ PressEntry(u, m, i) => Query(u, m, i).data \notin FixedData]_vars

\* a file was delivered through its f-token from a table that also holds a
\* d-token
C19_Witness ==
    /\ last.op = "file" /\ last.result = "document"
    /\ last.doc \in AllFiles
    /\ \E tok \in DOMAIN user_data[last.user].paths : tok[1] = "d"

ButtonOps == BrowseOps \cup {"student", "logout", "back_to_menu"}

\* C20: every button press is answered with a render that has at least one
\* button, or with a file; in particular no Back press is ignored.
C20_EveryPressIsAnswered ==
    (last.op \in ButtonOps \ {"student"}) =>
        \/ last.result = "document"
        \/ /\ last.result \notin {"none", "raised"}
           /\ msgs[last.user][last.slot].text = last.result
           /\ Len(msgs[last.user][last.slot].kb) >= 1

\* C21: an attempt that ends by reporting an error has created no session
\* and appended no record; and a user who has a session is not awaiting
\* credentials.
C21_LoginAllOrNothing ==
    [][last'.op = "credentials" =>
          /\ last'.result \in {"error", "init_failed", "invalid_credentials",
                               "fetch_failed"} =>
                /\ sessions' = sessions
                /\ last'.sink # "appended"
          /\ \A u \in Users :
                sessions'[u] # NoSession =>
                    user_states'[u] # "waiting_student_credentials"]_vars

\* C22: every entry of dir_stack above the bottom is an immediate child
\* directory of the entry below it, and every path of the token table is an
\* immediate child of the top of dir_stack.
C22_StackIsPathChain ==
    \A u \in Users :
        LET stack == user_data[u].dir_stack
            paths == user_data[u].paths
        IN  /\ \A k \in 2..Len(stack) :
                  stack[k] \in AllDirs /\ DirOf(stack[k]) = stack[k - 1]
            /\ \A tok \in DOMAIN paths :
                  stack # <<>> /\ DirOf(paths[tok]) = Top(stack)

\* C23: a step taken by one user leaves the session entry, the interactive
\* state, the dir_stack and the token table of every other user unchanged.
C23_OtherUsersStateUnchanged ==
    [][\A b \in Users :
          b # last'.user =>
              /\ sessions'[b] = sessions[b]
              /\ user_states'[b] = user_states[b]
              /\ user_data'[b].dir_stack = user_data[b].dir_stack
              /\ user_data'[b].paths = user_data[b].paths]_vars

\* a user has changed the own session, state, stack or table while the
\* other user holds a session, a stack of two directories and a table
C23_Witness ==
    \E a \in Users, b \in Users :
        /\ a # b
        /\ last.user = a
        /\ last.op \in {"logout", "credentials", "year", "directory",
                        "back_to_parent"}
        /\ sessions[b] # NoSession
        /\ user_states[b] = "student_menu"
        /\ Len(user_data[b].dir_stack) = 2
        /\ user_data[b].paths # <<>>
        /\ user_data[a] # user_data[b]

====
